---- MODULE Spec2Model ----
\* Model of otto::core::audio::AudioBufferHandle, AudioBufferPool and
\* ProcessData (src/src/core/audio/processor.hpp): the reference-counted views
\* into the slots of a fixed pool of audio buffers, and the packet of such
\* views, MIDI events and a frame count that is passed along the processors.
EXTENDS Integers, FiniteSets, Sequences, TLC

\* ---------------------------------------------------------------------------
\* Bounds of the model
\* ---------------------------------------------------------------------------
\* Number of AudioBufferHandle objects (variables, temporaries) that exist at
\* once.
MaxHandles == 2
\* Largest buffer size (samples per slot) a pool is constructed with.
MaxBufferSize == 2
\* Cap on a slot's reference count (copies and leaked shares are unbounded),
\* and on how far below zero lost updates take it.
MaxCount == 2
\* Number of times the backing storage is reallocated by set_buffer_size.
MaxRealloc == 1
\* Number of slots the pool hands out while two threads share handles (lost
\* decrements leave slots behind for good).
MaxSharedSlots == 1

\* ---------------------------------------------------------------------------
\* Program constants
\* ---------------------------------------------------------------------------
\* static constexpr int number_of_buffers = 8;
number_of_buffers == 8

\* ---------------------------------------------------------------------------
\* State
\* ---------------------------------------------------------------------------
VARIABLES
  buffer_size,        \* AudioBufferPool::buffer_size
  reference_counts,   \* AudioBufferPool::reference_counts, index 0..size-1
  avaliable_buffers,  \* AudioBufferPool::_avaliable_buffers
  data,               \* the float[] owned by AudioBufferPool::data
  data_block,         \* identity of the array AudioBufferPool::data points to
  max_val,            \* AudioBufferPool::_max_val
  logged,             \* the numbers allocate() has logged ("Using {} buffers")
  handles,            \* the AudioBufferHandle objects of the audio thread
  packets,            \* the ProcessData objects of the audio thread
  threads,            \* the counter update each thread is in the middle of
  status,             \* "running", "terminated" (std::terminate) or "segfault"
  last                \* the operation performed by the last step

vars == <<buffer_size, reference_counts, avaliable_buffers, data, data_block,
          max_val, logged, handles, packets, threads, status, last>>

poolVars == <<buffer_size, avaliable_buffers, data, data_block, max_val,
              logged>>

Handles == 1..MaxHandles

\* The values a sample takes in the model: zero and one nonzero value.
SampleValues == {0, 1}

\* int* _reference_count is modelled by the index of the slot whose counter it
\* points to; the null pointer by NullCount.
NullCount == -1

\* float* _data is modelled by the array it points into and the offset in it;
\* arrays are numbered from 1, block 0 is the null pointer.
nullptr == [blk |-> 0, off |-> 0]

\* A handle object that does not exist (not yet constructed, or destroyed).
NoObject == [obj |-> FALSE, data |-> nullptr, length |-> 0,
             reference_count |-> NullCount]

\* The ProcessData object threaded through the processing chain: a reshape
\* consumes it and its result takes its place.
Packets == {1}

\* A ProcessData object that does not exist (not yet constructed, or
\* destroyed). from_pool records how an existing packet came about: it was
\* constructed over whole pool buffers with their length as frame count.
NoPacket == [obj |-> FALSE, audio |-> <<>>, midi |-> <<>>, nframes |-> 0,
             from_pool |-> FALSE]

\* The MIDI event batches of a callback: events ordered by their offset.
MidiBatches ==
  {<<>>,
   <<[note |-> 60, offset |-> 0]>>,
   <<[note |-> 60, offset |-> 0], [note |-> 64, offset |-> 1]>>}

\* The two threads that touch handles when the single-writer rule is broken.
Threads == {1, 2}

\* A thread that is not in the middle of a counter update and has not touched
\* a handle yet. reg is the value of the counter the thread has read, dst the
\* handle object it constructs or destroys, val the value of that object.
Idle == [pc |-> "idle", reg |-> 0, dst |-> 0, val |-> NoObject, acted |-> FALSE]

\* std::size_t _max_val = -1: the conversion of -1 to the unsigned type gives
\* its largest value (SizeMax stands for it, the largest integer of the model).
SizeMax == 2147483647

\* No operation has been performed yet / field not used by the operation.
NoLast == [op |-> "none", dst |-> 0, src |-> 0, idx |-> 0, len |-> 0,
           slot |-> NullCount, arr |-> <<>>]

Last(op, dst, src, idx, len, slot) ==
  [op |-> op, dst |-> dst, src |-> src, idx |-> idx, len |-> len, slot |-> slot,
   arr |-> <<>>]

\* An operation on packet p that was passed the array arr of handle objects.
LastPacket(op, p, arr, idx, len) ==
  [op |-> op, dst |-> p, src |-> 0, idx |-> idx, len |-> len,
   slot |-> NullCount, arr |-> arr]

\* ---------------------------------------------------------------------------
\* Pure helpers translated from the code
\* ---------------------------------------------------------------------------
\* std::vector<int>::resize(n, value): keeps the first n elements it has and
\* appends copies of value only for the elements it does not have yet.
Resize(vec, n, value) ==
  [i \in 0..(n - 1) |-> IF i \in DOMAIN vec THEN vec[i] ELSE value]

\* std::make_unique<float[]>(n): n value-initialised (zero) floats.
MakeUnique(n) == [i \in 0..(n - 1) |-> 0]

\* Mutant of IsFree: the test written as reference_counts[i] <= 1.
IsFreeOffByOne(c) == c <= 1

\* The test of allocate(): reference_counts[i] < 1
IsFree(c) == c < 1

\* Mutant of Increment: the constructor does not count the new handle.
IncrementForgotten(c) == c

\* (*_reference_count)++ of the handle constructors and of copy-assignment
Increment(c) == c + 1

\* Mutant of Decrement: the destructor does not give its share back.
DecrementForgotten(c) == c

\* (*_reference_count)-- of the destructor
Decrement(c) == c - 1

\* Mutant of FirstFree: the loop runs from the last index down.
LastFree(rcs) ==
  IF \E i \in DOMAIN rcs : IsFree(rcs[i])
  THEN CHOOSE i \in DOMAIN rcs :
         IsFree(rcs[i]) /\ \A j \in DOMAIN rcs : j > i => ~IsFree(rcs[j])
  ELSE NullCount

\* The loop of allocate(): the first index whose counter is free, or
\* NullCount when the loop runs to its end.
FirstFree(rcs) ==
  IF \E i \in DOMAIN rcs : IsFree(rcs[i])
  THEN CHOOSE i \in DOMAIN rcs :
         IsFree(rcs[i]) /\ \A j \in DOMAIN rcs : j < i => ~IsFree(rcs[j])
  ELSE NullCount

\* Mutant of ResetCount: allocate() marks the slot held itself (count 1)
\* before the handle constructor counts the handle once more.
ResetCountToOne(c) == 1

\* reference_counts[i] = 0; before the handle is constructed in allocate()
ResetCount(c) == 0

\* AudioBufferHandle(float* data, std::size_t length, int& reference_count)
HandleCtor(d, length, slot) ==
  [obj |-> TRUE, data |-> d, length |-> length, reference_count |-> slot]

\* Mutant of MovedFrom: the source of a move keeps its pointers.
MovedFromKeepsShare(h) == h

\* rhs._data = nullptr; rhs._reference_count = nullptr; (move ctor/assignment)
MovedFrom(h) == [h EXCEPT !.data = nullptr, !.reference_count = NullCount]

\* Mutant of Released: release() forgets to null the counter pointer.
ReleasedKeepsCounter(h) == [h EXCEPT !.data = nullptr]

\* _reference_count = nullptr; _data = nullptr; (release)
Released(h) == [h EXCEPT !.reference_count = NullCount, !.data = nullptr]

\* Mutant of PtrAdd: the slice starts where the receiver starts.
PtrAddNothing(p, n) == p

\* _data + idx
PtrAdd(p, n) == [p EXCEPT !.off = p.off + n]

\* Mutant of SliceLength: the omitted length defaults to the whole view.
SliceLengthWholeView(length, own_length, idx) ==
  IF length < 0 THEN own_length ELSE length

\* length = length < 0 ? _length - idx : length;
SliceLength(length, own_length, idx) ==
  IF length < 0 THEN own_length - idx ELSE length

\* A handle that holds a share: its _reference_count is not null.
Live(h) == h.obj /\ h.reference_count # NullCount

\* An existing handle without a share (released or moved from).
Inert(h) == h.obj /\ h.reference_count = NullCount

\* AudioBufferHandle::reference_count(): *_reference_count
ReferenceCount(h) == reference_counts[h.reference_count]

\* ---------------------------------------------------------------------------
\* Initial state: AudioBufferPool(buffer_size), no handle constructed
\* ---------------------------------------------------------------------------
Init ==
  /\ buffer_size \in 1..MaxBufferSize
  /\ reference_counts = Resize([i \in {} |-> 0], number_of_buffers, 0)
  /\ avaliable_buffers = number_of_buffers
  /\ data = MakeUnique(number_of_buffers * buffer_size)
  /\ data_block = 1
  /\ max_val = SizeMax
  /\ logged = <<>>
  /\ handles = [h \in Handles |-> NoObject]
  /\ packets = [p \in Packets |-> NoPacket]
  /\ threads = [t \in Threads |-> Idle]
  /\ status = "running"
  /\ last = NoLast

\* The handle objects of a callback that allocates three buffers A, B, C and
\* one more after giving C back.
FirstFitHandles == 1..(MaxHandles + 2)

\* AudioBufferPool(buffer_size), no handle constructed, for that callback.
InitFirstFit ==
  /\ buffer_size \in 1..MaxBufferSize
  /\ reference_counts = Resize([i \in {} |-> 0], number_of_buffers, 0)
  /\ avaliable_buffers = number_of_buffers
  /\ data = MakeUnique(number_of_buffers * buffer_size)
  /\ data_block = 1
  /\ max_val = SizeMax
  /\ logged = <<>>
  /\ handles = [h \in FirstFitHandles |-> NoObject]
  /\ packets = [p \in Packets |-> NoPacket]
  /\ threads = [t \in Threads |-> Idle]
  /\ status = "running"
  /\ last = NoLast

\* Mutant of Segfault: a dereference of a null _reference_count does nothing.
SegfaultIgnored(op, dst, src) ==
  /\ last' = Last(op, dst, src, 0, 0, NullCount)
  /\ UNCHANGED <<poolVars, packets, threads, reference_counts, handles, status>>

\* A dereference of a null _reference_count: the process dies.
Segfault(op, dst, src) ==
  /\ status' = "segfault"
  /\ last' = Last(op, dst, src, 0, 0, NullCount)
  /\ UNCHANGED <<poolVars, packets, threads, reference_counts, handles>>

\* ---------------------------------------------------------------------------
\* AudioBufferPool::allocate, the result constructed in the new object h
\* ---------------------------------------------------------------------------
Allocate(h) ==
  /\ status = "running"
  /\ ~handles[h].obj
  /\ LET i == FirstFree(reference_counts) IN
       IF i = NullCount
       THEN /\ status' = "terminated"
            /\ last' = Last("allocate", h, 0, 0, 0, NullCount)
            /\ UNCHANGED <<poolVars, packets, threads, reference_counts, handles>>
       ELSE /\ logged' = IF i > max_val THEN Append(logged, i + 1) ELSE logged
            /\ max_val' = IF i > max_val THEN i ELSE max_val
            /\ reference_counts' =
                 [reference_counts EXCEPT
                    ![i] = Increment(ResetCount(reference_counts[i]))]
            /\ handles' = [handles EXCEPT ![h] =
                 HandleCtor([blk |-> data_block, off |-> i * buffer_size],
                            buffer_size, i)]
            /\ last' = Last("allocate", h, 0, 0, 0, i)
            /\ UNCHANGED <<buffer_size, avaliable_buffers, data, data_block,
                           status, packets, threads>>

\* ---------------------------------------------------------------------------
\* AudioBufferHandle(const AudioBufferHandle& rhs): dst is a new object
\* ---------------------------------------------------------------------------
CopyConstruct(dst, src) ==
  /\ status = "running"
  /\ ~handles[dst].obj
  /\ handles[src].obj
  /\ IF handles[src].reference_count = NullCount
     THEN Segfault("copy_construct", dst, src)
     ELSE LET s == handles[src].reference_count IN
          /\ reference_counts[s] < MaxCount
          /\ handles' = [handles EXCEPT ![dst] =
               HandleCtor(handles[src].data, handles[src].length, s)]
          /\ reference_counts' =
               [reference_counts EXCEPT ![s] = Increment(reference_counts[s])]
          /\ last' = Last("copy_construct", dst, src, 0, 0, NullCount)
          /\ UNCHANGED <<poolVars, packets, threads, status>>

\* ---------------------------------------------------------------------------
\* AudioBufferHandle(AudioBufferHandle&& rhs): dst is a new object
\* ---------------------------------------------------------------------------
MoveConstruct(dst, src) ==
  /\ status = "running"
  /\ ~handles[dst].obj
  /\ handles[src].obj
  /\ handles' = [handles EXCEPT
       ![dst] = HandleCtor(handles[src].data, handles[src].length,
                           handles[src].reference_count),
       ![src] = MovedFrom(handles[src])]
  /\ last' = Last("move_construct", dst, src, 0, 0, NullCount)
  /\ UNCHANGED <<poolVars, packets, threads, reference_counts, status>>

\* ---------------------------------------------------------------------------
\* operator=(AudioBufferHandle&& rhs): dst and src exist, possibly the same
\* ---------------------------------------------------------------------------
MoveAssign(dst, src) ==
  /\ status = "running"
  /\ handles[dst].obj
  /\ handles[src].obj
  /\ LET assigned == [handles EXCEPT ![dst] =
           HandleCtor(handles[src].data, handles[src].length,
                      handles[src].reference_count)]
     IN handles' = [assigned EXCEPT ![src] = MovedFrom(assigned[src])]
  /\ last' = Last("move_assign", dst, src, 0, 0, NullCount)
  /\ UNCHANGED <<poolVars, packets, threads, reference_counts, status>>

\* ---------------------------------------------------------------------------
\* operator=(const AudioBufferHandle& rhs): dst and src exist, possibly the same
\* ---------------------------------------------------------------------------
CopyAssign(dst, src) ==
  /\ status = "running"
  /\ handles[dst].obj
  /\ handles[src].obj
  /\ IF handles[src].reference_count = NullCount
     THEN Segfault("copy_assign", dst, src)
     ELSE LET s == handles[src].reference_count IN
          /\ reference_counts[s] < MaxCount
          /\ handles' = [handles EXCEPT ![dst] =
               HandleCtor(handles[src].data, handles[src].length, s)]
          /\ reference_counts' =
               [reference_counts EXCEPT ![s] = Increment(reference_counts[s])]
          /\ last' = Last("copy_assign", dst, src, 0, 0, NullCount)
          /\ UNCHANGED <<poolVars, packets, threads, status>>

\* ---------------------------------------------------------------------------
\* AudioBufferHandle::release
\* ---------------------------------------------------------------------------
Release(h) ==
  /\ status = "running"
  /\ handles[h].obj
  /\ IF handles[h].reference_count = NullCount
     THEN Segfault("release", h, 0)
     ELSE LET s == handles[h].reference_count IN
          /\ reference_counts' =
               [reference_counts EXCEPT ![s] = reference_counts[s] - 1]
          /\ handles' = [handles EXCEPT ![h] = Released(handles[h])]
          /\ last' = Last("release", h, 0, 0, 0, s)
          /\ UNCHANGED <<poolVars, packets, threads, status>>

\* ---------------------------------------------------------------------------
\* ~AudioBufferHandle: the object h ceases to exist
\* ---------------------------------------------------------------------------
Destroy(h) ==
  /\ status = "running"
  /\ handles[h].obj
  /\ reference_counts' =
       IF handles[h].reference_count # NullCount
       THEN [reference_counts EXCEPT ![handles[h].reference_count] =
               Decrement(reference_counts[handles[h].reference_count])]
       ELSE reference_counts
  /\ handles' = [handles EXCEPT ![h] = NoObject]
  /\ last' = Last("destroy", h, 0, 0, 0, NullCount)
  /\ UNCHANGED <<poolVars, packets, threads, status>>

\* ---------------------------------------------------------------------------
\* AudioBufferHandle::reference_count(): the value read is kept in last.len
\* ---------------------------------------------------------------------------
ReadReferenceCount(h) ==
  /\ status = "running"
  /\ handles[h].obj
  /\ IF handles[h].reference_count = NullCount
     THEN Segfault("reference_count", h, 0)
     ELSE /\ last' = Last("reference_count", h, 0, 0,
                          ReferenceCount(handles[h]),
                          handles[h].reference_count)
          /\ UNCHANGED <<poolVars, packets, threads, reference_counts, handles,
                         status>>

\* a = b and a = std::move(b) with a an inert handle (released or moved from).
CopyAssignInert(dst, src) == Inert(handles[dst]) /\ CopyAssign(dst, src)

MoveAssignInert(dst, src) == Inert(handles[dst]) /\ MoveAssign(dst, src)

\* ---------------------------------------------------------------------------
\* AudioBufferHandle::slice(idx, length), the result constructed in dst.
\* Inputs satisfy the documented precondition: idx in [0, _length) and
\* length in [0, _length - idx], or negative (omitted).
\* ---------------------------------------------------------------------------
Slice(dst, src, idx, length) ==
  /\ status = "running"
  /\ ~handles[dst].obj
  /\ handles[src].obj
  /\ idx \in 0..(handles[src].length - 1)
  /\ length \in -1..(handles[src].length - idx)
  /\ IF handles[src].reference_count = NullCount
     THEN Segfault("slice", dst, src)
     ELSE LET s == handles[src].reference_count IN
          /\ reference_counts[s] < MaxCount
          /\ handles' = [handles EXCEPT ![dst] =
               HandleCtor(PtrAdd(handles[src].data, idx),
                          SliceLength(length, handles[src].length, idx), s)]
          /\ reference_counts' =
               [reference_counts EXCEPT ![s] = Increment(reference_counts[s])]
          /\ last' = Last("slice", dst, src, idx, length, NullCount)
          /\ UNCHANGED <<poolVars, packets, threads, status>>

\* ---------------------------------------------------------------------------
\* AudioBufferHandle::operator[](i) used to store v; i is inside the view and
\* the view lies in the array the pool owns now.
\* ---------------------------------------------------------------------------
Write(h, i, v) ==
  /\ status = "running"
  /\ Live(handles[h])
  /\ handles[h].data.blk = data_block
  /\ i \in 0..(handles[h].length - 1)
  /\ data' = [data EXCEPT ![handles[h].data.off + i] = v]
  /\ last' = Last("write", h, 0, i, 0, NullCount)
  /\ UNCHANGED <<buffer_size, avaliable_buffers, data_block, max_val, logged,
                 reference_counts, handles, status, packets, threads>>

\* Mutant of Clear: the fill stops one sample before end().
ClearButLast(arr, h) ==
  [j \in DOMAIN arr |->
     IF h.data.off <= j /\ j < h.data.off + h.length - 1 THEN 0 ELSE arr[j]]

\* AudioBufferHandle::clear: std::fill(begin(), end(), 0) on the array arr
Clear(arr, h) ==
  [j \in DOMAIN arr |->
     IF h.data.off <= j /\ j < h.data.off + h.length THEN 0 ELSE arr[j]]

\* ---------------------------------------------------------------------------
\* AudioBufferPool::allocate_clear, the result constructed in the new object h
\* ---------------------------------------------------------------------------
AllocateClear(h) ==
  /\ status = "running"
  /\ ~handles[h].obj
  /\ LET i == FirstFree(reference_counts) IN
       IF i = NullCount
       THEN /\ status' = "terminated"
            /\ last' = Last("allocate_clear", h, 0, 0, 0, NullCount)
            /\ UNCHANGED <<poolVars, packets, threads, reference_counts, handles>>
       ELSE LET res == HandleCtor([blk |-> data_block, off |-> i * buffer_size],
                                  buffer_size, i)
            IN
            /\ logged' = IF i > max_val THEN Append(logged, i + 1) ELSE logged
            /\ max_val' = IF i > max_val THEN i ELSE max_val
            /\ reference_counts' =
                 [reference_counts EXCEPT
                    ![i] = Increment(ResetCount(reference_counts[i]))]
            /\ data' = Clear(data, res)
            /\ handles' = [handles EXCEPT ![h] = res]
            /\ last' = Last("allocate_clear", h, 0, 0, 0, i)
            /\ UNCHANGED <<buffer_size, avaliable_buffers, data_block, status,
                           packets, threads>>

\* ---------------------------------------------------------------------------
\* AudioBufferPool::set_buffer_size(bs), with the reserve(number_of_buffers)
\* it calls
\* ---------------------------------------------------------------------------
SetBufferSize(bs) ==
  /\ status = "running"
  /\ data_block <= MaxRealloc
  /\ buffer_size' = bs
  /\ data' = MakeUnique(number_of_buffers * bs)
  /\ data_block' = data_block + 1
  /\ avaliable_buffers' = number_of_buffers
  /\ reference_counts' = Resize(reference_counts, number_of_buffers, 0)
  /\ last' = Last("set_buffer_size", 0, 0, 0, bs, NullCount)
  /\ UNCHANGED <<max_val, logged, handles, status, packets, threads>>

\* ---------------------------------------------------------------------------
\* AudioBufferPool::allocate_multi<NN> and allocate_multi_clear<NN>: the array
\* is built in the new objects first, ..., first + NN - 1
\* ---------------------------------------------------------------------------
\* The members allocate() reads and writes, as one value.
PoolState ==
  [reference_counts |-> reference_counts, handles |-> handles,
   max_val |-> max_val, logged |-> logged, data |-> data, status |-> status]

\* One call of allocate() (clear = FALSE) or allocate_clear() (clear = TRUE) on
\* the pool state pool, the result constructed in the new object h.
AllocateIn(pool, h, clear) ==
  LET i == FirstFree(pool.reference_counts) IN
  IF i = NullCount
  THEN [pool EXCEPT !.status = "terminated"]
  ELSE LET res == HandleCtor([blk |-> data_block, off |-> i * buffer_size],
                             buffer_size, i)
       IN [pool EXCEPT
             !.logged = IF i > pool.max_val THEN Append(@, i + 1) ELSE @,
             !.max_val = IF i > pool.max_val THEN i ELSE @,
             !.reference_counts[i] = Increment(ResetCount(@)),
             !.handles[h] = res,
             !.data = IF clear THEN Clear(@, res) ELSE @]

\* util::generate_array<NN>(f): the elements are f(0), ..., f(NN - 1), made in
\* this order; here f is allocate() or allocate_clear(), and a call that
\* terminates the process ends the construction.
RECURSIVE GenerateArray(_, _, _, _)
GenerateArray(pool, first, NN, clear) ==
  IF NN = 0 \/ pool.status # "running"
  THEN pool
  ELSE GenerateArray(AllocateIn(pool, first, clear), first + 1, NN - 1, clear)

\* The state after allocate_multi / allocate_multi_clear returned res.
AllocatedMulti(op, first, NN, res) ==
  /\ reference_counts' = res.reference_counts
  /\ handles' = res.handles
  /\ max_val' = res.max_val
  /\ logged' = res.logged
  /\ data' = res.data
  /\ status' = res.status
  /\ last' = Last(op, first, 0, 0, NN, NullCount)
  /\ UNCHANGED <<buffer_size, avaliable_buffers, data_block, packets, threads>>

AllocateMulti(first, NN) ==
  /\ status = "running"
  /\ \A k \in 0..(NN - 1) : first + k \in Handles /\ ~handles[first + k].obj
  /\ AllocatedMulti("allocate_multi", first, NN,
                    GenerateArray(PoolState, first, NN, FALSE))

AllocateMultiClear(first, NN) ==
  /\ status = "running"
  /\ \A k \in 0..(NN - 1) : first + k \in Handles /\ ~handles[first + k].obj
  /\ AllocatedMulti("allocate_multi_clear", first, NN,
                    GenerateArray(PoolState, first, NN, TRUE))

\* ---------------------------------------------------------------------------
\* ProcessData<N>: the packet of N audio handles, a MIDI batch and a frame
\* count. The member functions are defined in processor.inl; they are modelled
\* from their declarations and from the contract of the specification (4.3).
\* ---------------------------------------------------------------------------
\* The channel counts N of the packets: the specialisations ProcessData<0> and
\* ProcessData<1>, and the general template with two channels.
ChannelCounts == {0, 1, 2}

\* The arrays of handle objects a packet can be given.
HandleArrays == UNION {[1..n -> Handles] : n \in ChannelCounts}

\* Mutant of CopyOf: the copy does not take the data pointer over.
CopyDropsData(h) == HandleCtor(nullptr, h.length, h.reference_count)

\* The copy constructor of AudioBufferHandle, member by member.
CopyOf(h) == HandleCtor(h.data, h.length, h.reference_count)

\* std::array<AudioBufferHandle, N> copied from the handle objects hs.
CopiesOf(hs) == [i \in 1..Len(hs) |-> CopyOf(handles[hs[i]])]

\* The counters after every handle of audio has been copy-constructed.
RECURSIVE AddShares(_, _)
AddShares(rcs, audio) ==
  IF audio = <<>>
  THEN rcs
  ELSE AddShares([rcs EXCEPT ![Head(audio).reference_count] = Increment(@)],
                 Tail(audio))

\* The counters after every handle of audio has been destroyed.
RECURSIVE DropShares(_, _)
DropShares(rcs, audio) ==
  IF audio = <<>>
  THEN rcs
  ELSE DropShares([rcs EXCEPT ![Head(audio).reference_count] = Decrement(@)],
                  Tail(audio))

\* The frame count of a new packet: the one given, or the length of the first
\* buffer when it is omitted (nf < 0).
FrameCount(audio, nf) == IF nf < 0 THEN audio[1].length ELSE nf

\* The packet lies over whole pool buffers and counts their length as frames.
OverPoolBuffers(audio, nframes) ==
  /\ audio # <<>>
  /\ nframes = buffer_size
  /\ \A i \in DOMAIN audio : /\ audio[i].length = buffer_size
                            /\ audio[i].data.blk = data_block
                            /\ audio[i].data.off =
                                 audio[i].reference_count * buffer_size

\* ProcessData(audio, midi, nframes), ProcessData(audio, midi) and
\* ProcessData<0>(midi, nframes): the new packet p holds copies of the handle
\* objects hs.
PacketConstruct(p, hs, midi, nf) ==
  /\ status = "running"
  /\ ~packets[p].obj
  /\ \A i \in DOMAIN hs : handles[hs[i]].obj
  /\ Len(hs) = 0 => nf >= 0
  /\ IF \E i \in DOMAIN hs : Inert(handles[hs[i]])
     THEN Segfault("packet_construct", p, 0)
     ELSE LET audio == CopiesOf(hs)
              rcs == AddShares(reference_counts, audio)
          IN /\ \A s \in DOMAIN rcs : rcs[s] <= MaxCount
             /\ packets' = [packets EXCEPT ![p] =
                  [obj |-> TRUE, audio |-> audio, midi |-> midi,
                   nframes |-> FrameCount(audio, nf),
                   from_pool |-> OverPoolBuffers(audio, FrameCount(audio, nf))]]
             /\ reference_counts' = rcs
             /\ last' = LastPacket("packet_construct", p, hs, 0, nf)
             /\ UNCHANGED <<poolVars, handles, threads, status>>

\* ~ProcessData: the audio handles are destroyed with the packet.
PacketDestroy(p) ==
  /\ status = "running"
  /\ packets[p].obj
  /\ packets' = [packets EXCEPT ![p] = NoPacket]
  /\ reference_counts' = DropShares(reference_counts, packets[p].audio)
  /\ last' = LastPacket("packet_destroy", p, <<>>, 0, 0)
  /\ UNCHANGED <<poolVars, handles, threads, status>>

\* midi_only(): the MIDI batch and the frame count of pkt, no audio handle.
MidiOnlyOf(pkt) == [pkt EXCEPT !.audio = <<>>]

\* midi_only() on a packet of N >= 1 channels: the receiver is consumed, the
\* shares of its audio handles are given back.
MidiOnly(p) ==
  /\ status = "running"
  /\ packets[p].obj
  /\ Len(packets[p].audio) >= 1
  /\ packets' = [packets EXCEPT ![p] = MidiOnlyOf(packets[p])]
  /\ reference_counts' = DropShares(reference_counts, packets[p].audio)
  /\ last' = [LastPacket("midi_only", p, <<>>, 0, 0) EXCEPT
                !.slot = packets[p].audio[1].reference_count]
  /\ UNCHANGED <<poolVars, handles, threads, status>>

\* audio_only(): the audio handles and the frame count of pkt, no MIDI event.
AudioOnlyOf(pkt) == [pkt EXCEPT !.midi = <<>>]

\* audio_only() on a packet of N >= 1 channels: the handles pass to the result.
AudioOnly(p) ==
  /\ status = "running"
  /\ packets[p].obj
  /\ Len(packets[p].audio) >= 1
  /\ packets' = [packets EXCEPT ![p] = AudioOnlyOf(packets[p])]
  /\ last' = LastPacket("audio_only", p, <<>>, 0, 0)
  /\ UNCHANGED <<poolVars, reference_counts, handles, threads, status>>

\* redirect(buf): the MIDI batch and the frame count of pkt over the handles
\* audio.
RedirectOf(pkt, audio) == [pkt EXCEPT !.audio = audio]

\* redirect(buf) with buf the handle objects hs: the result holds copies of
\* them; the receiver is consumed and its own handles are given back.
Redirect(p, hs) ==
  /\ status = "running"
  /\ packets[p].obj
  /\ \A i \in DOMAIN hs : handles[hs[i]].obj
  /\ IF \E i \in DOMAIN hs : Inert(handles[hs[i]])
     THEN Segfault("redirect", p, 0)
     ELSE LET audio == CopiesOf(hs)
              rcs == DropShares(AddShares(reference_counts, audio),
                                packets[p].audio)
          IN /\ \A s \in DOMAIN rcs : rcs[s] <= MaxCount
             /\ packets' = [packets EXCEPT ![p] = RedirectOf(packets[p], audio)]
             /\ reference_counts' = rcs
             /\ last' = LastPacket("redirect", p, hs, 0, 0)
             /\ UNCHANGED <<poolVars, handles, threads, status>>

\* AudioBufferHandle::slice(idx, length) as a value: the view it returns.
SliceOf(h, idx, length) ==
  HandleCtor(PtrAdd(h.data, idx), SliceLength(length, h.length, idx),
             h.reference_count)

\* Mutant of PacketSliceOf: the handles are sliced, the frame count is kept.
PacketSliceKeepsFrames(pkt, idx, length) ==
  LET n == IF length < 0 THEN pkt.nframes - idx ELSE length IN
  [pkt EXCEPT !.audio = [i \in DOMAIN @ |-> SliceOf(@[i], idx, n)]]

\* slice(idx, length) of a packet: length is nframes - idx when it is omitted;
\* every audio handle is sliced to [idx, idx + length) and the frame count
\* becomes length.
PacketSliceOf(pkt, idx, length) ==
  LET n == IF length < 0 THEN pkt.nframes - idx ELSE length IN
  [pkt EXCEPT !.audio = [i \in DOMAIN @ |-> SliceOf(@[i], idx, n)],
              !.nframes = n]

\* slice(idx, length) on a packet of N >= 1 channels, within the documented
\* range: idx in [0, nframes), length in [0, nframes - idx] or omitted. The
\* slices take a share each, the handles of the consumed receiver give theirs
\* back.
PacketSlice(p, idx, length) ==
  /\ status = "running"
  /\ packets[p].obj
  /\ Len(packets[p].audio) >= 1
  /\ idx \in 0..(packets[p].nframes - 1)
  /\ length \in -1..(packets[p].nframes - idx)
  /\ LET res == PacketSliceOf(packets[p], idx, length) IN
       /\ packets' = [packets EXCEPT ![p] = res]
       /\ reference_counts' =
            DropShares(AddShares(reference_counts, res.audio), packets[p].audio)
  /\ last' = LastPacket("packet_slice", p, <<>>, idx, length)
  /\ UNCHANGED <<poolVars, handles, threads, status>>

\* ---------------------------------------------------------------------------
\* Handles used from two threads. (*_reference_count)++ and
\* (*_reference_count)-- on the plain int are a read of the counter followed
\* by a write of the value read plus or minus one; another thread can run
\* between the two.
\* ---------------------------------------------------------------------------
\* No thread is constructing or destroying the handle object h.
Untouched(h) == \A t \in Threads : threads[t].pc = "idle" \/ threads[t].dst # h

\* The thread has finished its operation.
Done == [Idle EXCEPT !.acted = TRUE]

\* allocate(), called while no thread is in the middle of an update and one of
\* the first MaxSharedSlots slots is free.
PoolAllocate(h) ==
  /\ \A t \in Threads : threads[t].pc = "idle"
  /\ FirstFree(reference_counts) \in 0..(MaxSharedSlots - 1)
  /\ Allocate(h)

\* Copy constructor, first half: the members are initialised from src and the
\* counter is read.
CopyRead(t, dst, src) ==
  /\ status = "running"
  /\ threads[t].pc = "idle"
  /\ ~handles[dst].obj
  /\ Live(handles[src])
  /\ Untouched(dst)
  /\ Untouched(src)
  /\ ReferenceCount(handles[src]) < MaxCount
  /\ threads' = [threads EXCEPT ![t] =
       [pc |-> "copy_write", reg |-> ReferenceCount(handles[src]), dst |-> dst,
        val |-> CopyOf(handles[src]), acted |-> TRUE]]
  /\ last' = Last("copy_read", dst, src, t, 0, handles[src].reference_count)
  /\ UNCHANGED <<poolVars, reference_counts, handles, packets, status>>

\* Copy constructor, second half: the counter is written and the new handle
\* exists.
CopyWrite(t) ==
  /\ status = "running"
  /\ threads[t].pc = "copy_write"
  /\ LET s == threads[t].val.reference_count IN
       /\ reference_counts' =
            [reference_counts EXCEPT ![s] = Increment(threads[t].reg)]
       /\ handles' = [handles EXCEPT ![threads[t].dst] = threads[t].val]
       /\ last' = Last("copy_write", threads[t].dst, 0, t, 0, s)
  /\ threads' = [threads EXCEPT ![t] = Done]
  /\ UNCHANGED <<poolVars, packets, status>>

\* Destructor of a live handle, first half: the counter is read.
DestroyRead(t, h) ==
  /\ status = "running"
  /\ threads[t].pc = "idle"
  /\ Live(handles[h])
  /\ Untouched(h)
  /\ ReferenceCount(handles[h]) > -MaxCount
  /\ threads' = [threads EXCEPT ![t] =
       [pc |-> "destroy_write", reg |-> ReferenceCount(handles[h]), dst |-> h,
        val |-> handles[h], acted |-> TRUE]]
  /\ last' = Last("destroy_read", h, 0, t, 0, handles[h].reference_count)
  /\ UNCHANGED <<poolVars, reference_counts, handles, packets, status>>

\* Destructor, second half: the counter is written and the handle is gone.
DestroyWrite(t) ==
  /\ status = "running"
  /\ threads[t].pc = "destroy_write"
  /\ LET s == threads[t].val.reference_count IN
       /\ reference_counts' =
            [reference_counts EXCEPT ![s] = Decrement(threads[t].reg)]
       /\ handles' = [handles EXCEPT ![threads[t].dst] = NoObject]
       /\ last' = Last("destroy_write", threads[t].dst, 0, t, 0, s)
  /\ threads' = [threads EXCEPT ![t] = Done]
  /\ UNCHANGED <<poolVars, packets, status>>

\* ---------------------------------------------------------------------------
\* Specifications
\* ---------------------------------------------------------------------------
\* Every operation on handles, on MaxHandles handle objects.
Next ==
  \/ \E h \in Handles : Allocate(h)
  \/ \E d \in Handles, s \in Handles : CopyConstruct(d, s)
  \/ \E d \in Handles, s \in Handles : MoveConstruct(d, s)
  \/ \E d \in Handles, s \in Handles : CopyAssign(d, s)
  \/ \E d \in Handles, s \in Handles : MoveAssign(d, s)
  \/ \E h \in Handles : Release(h)
  \/ \E h \in Handles : Destroy(h)
  \/ \E d \in Handles, s \in Handles, idx \in 0..MaxBufferSize,
        len \in -1..MaxBufferSize : Slice(d, s, idx, len)

Spec == Init /\ [][Next]_vars

\* Handles are allocated, copy-constructed, sliced, released and destroyed,
\* never assigned or moved.
NextHandles ==
  \/ \E h \in Handles : Allocate(h)
  \/ \E d \in Handles, s \in Handles : CopyConstruct(d, s)
  \/ \E h \in Handles : Release(h)
  \/ \E h \in Handles : Destroy(h)
  \/ \E d \in Handles, s \in Handles, idx \in 0..MaxBufferSize,
        len \in -1..MaxBufferSize : Slice(d, s, idx, len)

SpecHandles == Init /\ [][NextHandles]_vars

\* Handles are allocated, moved, released and destroyed.
NextMove ==
  \/ \E h \in Handles : Allocate(h)
  \/ \E d \in Handles, s \in Handles : MoveConstruct(d, s)
  \/ \E d \in Handles, s \in Handles : MoveAssign(d, s)
  \/ \E h \in Handles : Release(h)
  \/ \E h \in Handles : Destroy(h)

SpecMove == Init /\ [][NextMove]_vars

\* The pool is reconfigured while handles come and go.
NextResize ==
  \/ \E h \in Handles : Allocate(h)
  \/ \E d \in Handles, s \in Handles : CopyConstruct(d, s)
  \/ \E h \in Handles : Release(h)
  \/ \E h \in Handles : Destroy(h)
  \/ \E bs \in 1..MaxBufferSize : SetBufferSize(bs)

SpecResize == Init /\ [][NextResize]_vars

\* Samples are written through handles, slots are dropped and handed out again.
NextData ==
  \/ \E h \in Handles : Allocate(h)
  \/ \E h \in Handles : AllocateClear(h)
  \/ \E h \in Handles, i \in 0..(MaxBufferSize - 1), v \in SampleValues :
        Write(h, i, v)
  \/ \E h \in Handles : Release(h)
  \/ \E h \in Handles : Destroy(h)

SpecData == Init /\ [][NextData]_vars

\* Arrays of handles are allocated at once, written through and dropped.
NextMulti ==
  \/ \E h \in Handles : Allocate(h)
  \/ \E h \in Handles, NN \in 1..MaxHandles : AllocateMulti(h, NN)
  \/ \E h \in Handles, NN \in 1..MaxHandles : AllocateMultiClear(h, NN)
  \/ \E h \in Handles, i \in 0..(MaxBufferSize - 1), v \in SampleValues :
        Write(h, i, v)
  \/ \E h \in Handles : Release(h)
  \/ \E h \in Handles : Destroy(h)

SpecMulti == Init /\ [][NextMulti]_vars

\* A callback allocates its buffers, builds a packet over them and reshapes it
\* along the chain.
NextPacket ==
  \/ \E h \in Handles : Allocate(h)
  \/ \E p \in Packets, hs \in HandleArrays, midi \in MidiBatches,
        nf \in -1..MaxBufferSize : PacketConstruct(p, hs, midi, nf)
  \/ \E p \in Packets : MidiOnly(p)
  \/ \E p \in Packets : AudioOnly(p)
  \/ \E p \in Packets, hs \in HandleArrays : Redirect(p, hs)
  \/ \E p \in Packets, idx \in 0..MaxBufferSize, len \in -1..MaxBufferSize :
        PacketSlice(p, idx, len)
  \/ \E p \in Packets : PacketDestroy(p)

SpecPacket == Init /\ [][NextPacket]_vars

\* Buffers are allocated, released and destroyed, never shared.
NextFirstFit ==
  \/ \E h \in FirstFitHandles : Allocate(h)
  \/ \E h \in FirstFitHandles : Release(h)
  \/ \E h \in FirstFitHandles : Destroy(h)

SpecFirstFit == InitFirstFit /\ [][NextFirstFit]_vars

\* Two threads copy and destroy handles of buffers the pool has handed out.
NextThreads ==
  \/ \E h \in Handles : PoolAllocate(h)
  \/ \E t \in Threads, d \in Handles, s \in Handles : CopyRead(t, d, s)
  \/ \E t \in Threads : CopyWrite(t)
  \/ \E t \in Threads, h \in Handles : DestroyRead(t, h)
  \/ \E t \in Threads : DestroyWrite(t)

SpecThreads == Init /\ [][NextThreads]_vars

\* Handles are released and moved from, and the inert handles are used again:
\* read, released, copied, sliced, assigned to, destroyed.
NextInert ==
  \/ \E h \in Handles : Allocate(h)
  \/ \E d \in Handles, s \in Handles : CopyConstruct(d, s)
  \/ \E d \in Handles, s \in Handles : MoveConstruct(d, s)
  \/ \E d \in Handles, s \in Handles : CopyAssignInert(d, s)
  \/ \E d \in Handles, s \in Handles : MoveAssignInert(d, s)
  \/ \E h \in Handles : Release(h)
  \/ \E h \in Handles : ReadReferenceCount(h)
  \/ \E h \in Handles : Destroy(h)
  \/ \E d \in Handles, s \in Handles, idx \in 0..MaxBufferSize,
        len \in -1..MaxBufferSize : Slice(d, s, idx, len)

SpecInert == Init /\ [][NextInert]_vars

\* ---------------------------------------------------------------------------
\* Properties
\* ---------------------------------------------------------------------------
Slots == DOMAIN reference_counts

\* The handle objects that hold a share of slot s.
HoldersOf(s) ==
  {h \in Handles : Live(handles[h]) /\ handles[h].reference_count = s}

\* Every counter but that of slot s is the same before and after the step.
OtherCountsUnchanged(s) ==
  \A t \in Slots : t # s => reference_counts'[t] = reference_counts[t]

\* reference_count() of handle object h, read after the step.
ReferenceCountAfter(h) == reference_counts'[handles'[h].reference_count]

\* C1: when handles are only allocated, copy-constructed, sliced, released and
\* destroyed, each slot's reference count equals the number of live handles
\* (slices included) that reference the slot, and allocate() can select a slot
\* exactly when its count is 0.
C1_CountEqualsLiveHandles ==
  \A s \in Slots :
    /\ reference_counts[s] = Cardinality(HoldersOf(s))
    /\ IsFree(reference_counts[s]) <=> reference_counts[s] = 0

\* C1 witness: a slot shared by a handle and a slice of it (count 2), next to a
\* lower slot that was used and has been given back (count 0).
C1_Witness ==
  /\ reference_counts[0] = 0
  /\ reference_counts[1] = 2
  /\ \E a \in Handles, b \in Handles :
       /\ a # b
       /\ {a, b} = HoldersOf(1)
       /\ handles[a].data.off # handles[b].data.off

\* C2 (as claimed): copy-assignment a = b of a live a (slot X) from a live b
\* (slot Y) lowers X's count by one and raises Y's by one, leaves both
\* unchanged when X = Y, and a references Y afterwards.
C2_CopyAssignReleasesPrevious ==
  [][(/\ last'.op = "copy_assign"
      /\ status' = "running"
      /\ Live(handles[last'.dst])
      /\ Live(handles[last'.src]))
     => LET X == handles[last'.dst].reference_count
            Y == handles[last'.src].reference_count
        IN /\ handles'[last'.dst].reference_count = Y
           /\ X # Y => /\ reference_counts'[X] = reference_counts[X] - 1
                       /\ reference_counts'[Y] = reference_counts[Y] + 1
           /\ X = Y => reference_counts' = reference_counts]_vars

\* C3 (as claimed): once every handle object has been destroyed, every slot's
\* reference count is 0 and all 8 slots are available to allocate again.
C3_AllDestroyedAllFree ==
  (status = "running" /\ \A h \in Handles : ~handles[h].obj)
    => /\ Cardinality(Slots) = number_of_buffers
       /\ \A s \in Slots : reference_counts[s] = 0 /\ IsFree(reference_counts[s])

\* C4 (as claimed): right after set_buffer_size every slot's count is 0.
C4_SetBufferSizeResetsCounts ==
  last.op = "set_buffer_size" => \A s \in Slots : reference_counts[s] = 0

\* C5: allocate() called with every slot's count at 1 or more terminates and
\* returns no handle; otherwise the slot it returns had a count below 1 at the
\* time of the call.
C5_AllocateNeverReusesHeldSlot ==
  [][last'.op = "allocate"
     => IF \A s \in Slots : reference_counts[s] >= 1
        THEN /\ status' = "terminated"
             /\ handles' = handles
             /\ reference_counts' = reference_counts
        ELSE /\ status' = "running"
             /\ last'.slot \in Slots
             /\ reference_counts[last'.slot] < 1
             /\ Live(handles'[last'.dst])
             /\ handles'[last'.dst].reference_count = last'.slot]_vars

\* C5 witness: allocate() has terminated the process on a full pool.
C5_Witness ==
  /\ last.op = "allocate"
  /\ status = "terminated"
  /\ Cardinality(Slots) = number_of_buffers
  /\ \A s \in Slots : reference_counts[s] >= 1
  /\ ~handles[last.dst].obj

C7_ReleaseDecrementsOnce ==
  [][/\ (last'.op = "release" /\ status' = "running")
        => LET s == handles[last'.dst].reference_count IN
           /\ Live(handles[last'.dst])
           /\ reference_counts'[s] = reference_counts[s] - 1
           /\ OtherCountsUnchanged(s)
           /\ Inert(handles'[last'.dst])
     /\ (last.op = "release" /\ last'.op = "destroy" /\ last'.dst = last.dst)
        => reference_counts' = reference_counts]_vars

\* C7 witness: a handle has been released while a copy still holds the slot.
C7_Witness ==
  /\ last.op = "release"
  /\ status = "running"
  /\ Inert(handles[last.dst])
  /\ last.slot \in Slots
  /\ reference_counts[last.slot] = 1
  /\ HoldersOf(last.slot) # {}

\* C8: slice(idx, length) within the documented range returns a handle at
\* base + idx of size length (L - idx when length is omitted) on the same
\* slot, raises that slot's count by exactly one, and leaves the receiver as
\* it was.
C8_SliceView ==
  [][(last'.op = "slice" /\ status' = "running")
     => LET src == handles[last'.src]
            res == handles'[last'.dst]
            s == handles[last'.src].reference_count
        IN /\ res.obj
           /\ res.data = [blk |-> src.data.blk, off |-> src.data.off + last'.idx]
           /\ res.length = IF last'.len < 0 THEN src.length - last'.idx
                                            ELSE last'.len
           /\ res.reference_count = s
           /\ reference_counts'[s] = reference_counts[s] + 1
           /\ OtherCountsUnchanged(s)
           /\ handles'[last'.src] = src]_vars

\* C8 witness: slice(1) with the length omitted, on a full view of 2 samples
\* or more.
C8_Witness ==
  /\ last.op = "slice"
  /\ status = "running"
  /\ last.idx = 1
  /\ last.len < 0
  /\ handles[last.dst].length = handles[last.src].length - 1
  /\ handles[last.dst].length >= 1
  /\ ReferenceCount(handles[last.src]) = 2

\* C9: the handle allocate() returns reads reference_count() = 1; a copy
\* constructed from it right away reads 2; destroying that copy brings the
\* count back to 1.
C9_AllocateCountsOne ==
  [][/\ (last'.op = "allocate" /\ status' = "running")
        => /\ Live(handles'[last'.dst])
           /\ ReferenceCountAfter(last'.dst) = 1
     /\ (/\ last.op = "allocate"
         /\ last'.op = "copy_construct"
         /\ last'.src = last.dst
         /\ status' = "running")
        => /\ ReferenceCountAfter(last'.src) = 2
           /\ ReferenceCountAfter(last'.dst) = 2
     /\ (/\ last.op = "copy_construct"
         /\ status = "running"
         /\ ReferenceCount(handles[last.src]) = 2
         /\ last'.op = "destroy"
         /\ last'.dst = last.dst)
        => ReferenceCountAfter(last.src) = 1]_vars

\* C9 witness: allocate() has returned slot 0 a second time (slot 1 is still
\* held, so slot 0 was used and freed before) and its count reads 1.
C9_Witness ==
  /\ last.op = "allocate"
  /\ last.slot = 0
  /\ ReferenceCount(handles[last.dst]) = 1
  /\ HoldersOf(1) # {}

\* C10: allocate_clear() returns a handle of buffer_size samples that all read
\* zero, and changes no sample outside the slot it returns.
C10_AllocateClearZeroes ==
  [][(last'.op = "allocate_clear" /\ status' = "running")
     => LET res == handles'[last'.dst] IN
        /\ Live(res)
        /\ res.length = buffer_size
        /\ res.data.blk = data_block
        /\ \A i \in 0..(res.length - 1) : data'[res.data.off + i] = 0
        /\ \A j \in DOMAIN data :
             (j < last'.slot * buffer_size \/ j >= (last'.slot + 1) * buffer_size)
               => data'[j] = data[j]]_vars

\* C10 witness: allocate_clear() has returned slot 0 again (slot 1 is still
\* held, so slot 0 had an earlier holder) while a sample written through the
\* other handle, in slot 1, still reads nonzero.
C10_Witness ==
  /\ last.op = "allocate_clear"
  /\ status = "running"
  /\ last.slot = 0
  /\ HoldersOf(1) # {}
  /\ \A i \in 0..(buffer_size - 1) :
       data[handles[last.dst].data.off + i] = 0
  /\ \E j \in DOMAIN data : data[j] # 0

\* The number of slots allocate() can hand out now.
FreeSlots == {s \in Slots : IsFree(reference_counts[s])}

\* C11: allocate_multi<N>() and allocate_multi_clear<N>() called with at least
\* N free slots return N live handles on N pairwise different slots, each of
\* count 1 after the call, and change the count of no other slot.
C11_AllocateMultiDistinctSlots ==
  [][(/\ last'.op \in {"allocate_multi", "allocate_multi_clear"}
      /\ Cardinality(FreeSlots) >= last'.len)
     => LET arr == last'.dst..(last'.dst + last'.len - 1)
            got == {handles'[h].reference_count : h \in arr}
        IN /\ status' = "running"
           /\ \A h \in arr : /\ Live(handles'[h])
                              /\ handles'[h].length = buffer_size
                              /\ ReferenceCountAfter(h) = 1
           /\ \A h \in arr, g \in arr :
                h # g => handles'[h].reference_count # handles'[g].reference_count
           /\ Cardinality(got) = last'.len
           /\ \A t \in Slots \ got : reference_counts'[t] = reference_counts[t]]_vars

\* C11 witness: an array of two handles (or more) has just been allocated, on
\* different slots that each count one handle.
C11_Witness ==
  /\ last.op \in {"allocate_multi", "allocate_multi_clear"}
  /\ status = "running"
  /\ last.len >= 2
  /\ handles[last.dst].reference_count # handles[last.dst + 1].reference_count
  /\ ReferenceCount(handles[last.dst]) = 1
  /\ ReferenceCount(handles[last.dst + 1]) = 1

\* C12 (as claimed): whenever allocate() hands out a slot whose index is above
\* every index recorded before, the first allocation included (nothing is
\* recorded yet), it logs the number of buffers in use, index + 1, and records
\* the index as the new maximum.
C12_HighWaterMarkRecorded ==
  [][(/\ last'.op \in {"allocate", "allocate_clear"}
      /\ status' = "running"
      /\ (max_val = SizeMax \/ last'.slot > max_val))
     => /\ max_val' = last'.slot
        /\ logged' = Append(logged, last'.slot + 1)]_vars

\* C13: redirect(handles) returns a packet with the receiver's nframes and the
\* receiver's MIDI events (same events, order and offsets) whose audio channels
\* are exactly the M handles passed in, whatever the receiver's own handles
\* were; no sample is copied.
C13_RedirectKeepsMidiAndFrames ==
  [][(last'.op = "redirect" /\ status' = "running")
     => LET pkt == packets[last'.dst]
            res == packets'[last'.dst]
            buf == last'.arr
        IN /\ res.obj
           /\ res.nframes = pkt.nframes
           /\ res.midi = pkt.midi
           /\ Len(res.audio) = Len(buf)
           /\ \A i \in DOMAIN buf :
                /\ res.audio[i].data = handles[buf[i]].data
                /\ res.audio[i].length = handles[buf[i]].length
                /\ res.audio[i].reference_count = handles[buf[i]].reference_count
           /\ data' = data
           /\ handles' = handles]_vars

\* C13 witness: a packet with two MIDI events has been redirected to two
\* buffers on different slots, and its frame count is not their length.
C13_Witness ==
  /\ last.op = "redirect"
  /\ status = "running"
  /\ LET res == packets[last.dst] IN
       /\ Len(res.midi) = 2
       /\ Len(res.audio) = 2
       /\ res.audio[1].reference_count # res.audio[2].reference_count
       /\ res.audio[1].data = handles[last.arr[1]].data
       /\ res.nframes # res.audio[1].length

\* C14: slice(idx, length) of a packet within the documented range returns a
\* packet whose nframes is length (nframes - idx when length is omitted), whose
\* every audio handle is the receiver's handle at data + idx with that length
\* on the same slot, and whose MIDI events are the receiver's, offsets
\* unchanged.
C14_PacketSlice ==
  [][(last'.op = "packet_slice" /\ status' = "running")
     => LET pkt == packets[last'.dst]
            res == packets'[last'.dst]
            n == IF last'.len < 0 THEN pkt.nframes - last'.idx ELSE last'.len
        IN /\ res.obj
           /\ res.nframes = n
           /\ res.midi = pkt.midi
           /\ Len(res.audio) = Len(pkt.audio)
           /\ \A i \in DOMAIN pkt.audio :
                /\ res.audio[i].data.blk = pkt.audio[i].data.blk
                /\ res.audio[i].data.off = pkt.audio[i].data.off + last'.idx
                /\ res.audio[i].length = n
                /\ res.audio[i].reference_count = pkt.audio[i].reference_count]_vars

\* C14 witness: a packet of two channels with a MIDI event at offset 1 has
\* been sliced at idx 1 with the length omitted.
C14_Witness ==
  /\ last.op = "packet_slice"
  /\ status = "running"
  /\ last.idx = 1
  /\ last.len < 0
  /\ LET res == packets[last.dst] IN
       /\ res.nframes = 1
       /\ Len(res.audio) = 2
       /\ \A i \in DOMAIN res.audio :
            res.audio[i].data.off = res.audio[i].reference_count * buffer_size + 1
       /\ Len(res.midi) = 2
       /\ res.midi[2].offset = 1

\* Every audio handle of pkt has the size the packet counts as its frames.
FramesConsistent(pkt) == \A i \in DOMAIN pkt.audio : pkt.audio[i].length = pkt.nframes

\* C15 (as claimed): in every packet constructed over pool handles and reshaped
\* by any sequence of slice, redirect, audio_only and midi_only, each audio
\* handle's size equals the packet's nframes.
C15_FramesConsistentAlways ==
  \A p \in Packets :
    (packets[p].obj /\ packets[p].from_pool) => FramesConsistent(packets[p])

\* C15 (amended): a packet constructed over handles of one size, with that
\* size or no size given as frame count, has every audio handle's size equal
\* to nframes; slice, audio_only and midi_only keep this; redirect carries
\* nframes over and keeps it when the handles passed in have size nframes.
C15_FramesConsistentKept ==
  [][/\ (last'.op = "packet_construct" /\ status' = "running")
        => LET buf == last'.arr
               res == packets'[last'.dst]
           IN ((\A i \in DOMAIN buf :
                  handles[buf[i]].length = handles[buf[1]].length)
               /\ (last'.len < 0 \/ \A i \in DOMAIN buf :
                                       handles[buf[i]].length = last'.len))
              => FramesConsistent(res)
     /\ last'.op \in {"packet_slice", "audio_only", "midi_only"}
        => (FramesConsistent(packets[last'.dst])
              => FramesConsistent(packets'[last'.dst]))
     /\ (last'.op = "redirect" /\ status' = "running")
        => /\ packets'[last'.dst].nframes = packets[last'.dst].nframes
           /\ (\A i \in DOMAIN last'.arr :
                 handles[last'.arr[i]].length = packets[last'.dst].nframes)
              <=> FramesConsistent(packets'[last'.dst])]_vars

\* C15 witness: a packet constructed over whole pool buffers has been sliced
\* to part of its frames, and every channel has the size of the new nframes.
C15_Witness ==
  /\ last.op = "packet_slice"
  /\ LET res == packets[last.dst] IN
       /\ res.from_pool
       /\ Len(res.audio) = 2
       /\ res.nframes < buffer_size
       /\ res.nframes >= 1
       /\ FramesConsistent(res)

\* The number of audio handles of pkt that reference slot s.
ChannelsOn(pkt, s) ==
  Cardinality({i \in DOMAIN pkt.audio : pkt.audio[i].reference_count = s})

C17_FirstFit ==
  [][/\ (last'.op = "allocate" /\ status' = "running")
        => LET i == last'.slot
               res == handles'[last'.dst]
           IN /\ i \in Slots
              /\ reference_counts[i] < 1
              /\ \A j \in Slots : j < i => reference_counts[j] >= 1
              /\ res.reference_count = i
              /\ res.data = [blk |-> data_block, off |-> i * buffer_size]
              /\ res.length = buffer_size
              /\ res.data.off + res.length = (i + 1) * buffer_size
     /\ (/\ last.op = "release"
         /\ status = "running"
         /\ reference_counts[last.slot] < 1
         /\ \A j \in Slots : j < last.slot => reference_counts[j] = 1
         /\ last'.op = "allocate")
        => /\ last'.slot = last.slot
           /\ OtherCountsUnchanged(last.slot)
           /\ \A j \in Slots : j < last.slot => reference_counts'[j] = 1]_vars

\* C17 witness: with A on slot 0 and B on slot 1, both of count 1, and C
\* released (inert), allocate() has returned slot 2 again.
C17_Witness ==
  /\ last.op = "allocate"
  /\ last.slot = 2
  /\ reference_counts[0] = 1
  /\ reference_counts[1] = 1
  /\ reference_counts[2] = 1
  /\ \E a \in DOMAIN handles, b \in DOMAIN handles, c \in DOMAIN handles :
       /\ Live(handles[a]) /\ handles[a].reference_count = 0
       /\ Live(handles[b]) /\ handles[b].reference_count = 1
       /\ Inert(handles[c])
       /\ {a, b, c, last.dst} = DOMAIN handles
       /\ handles[last.dst].data.off = 2 * buffer_size

\* C18: along every sequence of allocate, copy/move construction, copy/move
\* assignment, slice, release and destruction on one thread, a slot's count is
\* never negative and never below the number of live handles that reference
\* the slot, and allocate() never returns a slot that a live handle
\* references.
C18_CountCoversLiveHandles ==
  /\ [](\A s \in Slots : /\ reference_counts[s] >= 0
                          /\ reference_counts[s] >= Cardinality(HoldersOf(s)))
  /\ [][(last'.op = "allocate" /\ status' = "running")
          => HoldersOf(last'.slot) = {}]_vars

\* C18 witness: allocate() has passed over a lower slot that an assignment
\* left with a count but without a live handle, and returned a slot that
\* only the new handle references.
C18_Witness ==
  /\ last.op = "allocate"
  /\ status = "running"
  /\ HoldersOf(last.slot) = {last.dst}
  /\ \E s \in Slots : /\ s < last.slot
                       /\ reference_counts[s] >= 1
                       /\ HoldersOf(s) = {}

\* The threads that have copied or destroyed a handle.
Actors == {t \in Threads : threads[t].acted}

\* C19: as long as the handles are copied and destroyed by one thread only,
\* no slot's count is below the number of live handles on it, and allocate()
\* returns no slot a live handle references; with a second thread (C19_Witness)
\* an update is lost.
C19_SingleWriterKeepsCounts ==
  /\ [](Cardinality(Actors) <= 1
          => \A s \in Slots : reference_counts[s] >= Cardinality(HoldersOf(s)))
  /\ [][(Cardinality(Actors) <= 1 /\ last'.op = "allocate")
          => HoldersOf(last'.slot) = {}]_vars

\* C19 witness: two threads have copied and destroyed handles of one slot,
\* both are done, an increment was lost (the count fell below the number of
\* live handles) and allocate() has handed the slot out again: the new handle
\* shares it with a handle that was live all along.
C19_Witness ==
  /\ Actors = Threads
  /\ \A t \in Threads : threads[t].pc = "idle"
  /\ last.op = "allocate"
  /\ status = "running"
  /\ \E h \in Handles : h # last.dst /\ h \in HoldersOf(last.slot)
  /\ reference_counts[last.slot] < Cardinality(HoldersOf(last.slot))

\* The step uses the inert handle's null counter pointer: a release() of it,
\* a copy construction or copy-assignment from it, a slice() of it or a
\* reference_count() on it.
DereferencesInert ==
  \/ last'.op \in {"release", "reference_count"} /\ Inert(handles[last'.dst])
  \/ /\ last'.op \in {"copy_construct", "copy_assign", "slice"}
     /\ Inert(handles[last'.src])

\* The step assigns a live handle, or moves any handle, to an inert target.
AssignsToInert ==
  /\ Inert(handles[last'.dst])
  /\ \/ last'.op = "move_assign"
     \/ last'.op = "copy_assign" /\ Live(handles[last'.src])

\* C20 (as claimed): on an inert handle, destruction and being the target of
\* an assignment are safe and leave every slot's count unchanged; every other
\* operation that touches the count (second release(), copy construction or
\* copy-assignment from it, slice(), reference_count()) dereferences the null
\* pointer and ends in the error state.
C20_InertOnlyDestroyOrAssign ==
  [][/\ (last'.op = "destroy" /\ Inert(handles[last'.dst]))
        => status' = "running" /\ reference_counts' = reference_counts
     /\ AssignsToInert
        => status' = "running" /\ reference_counts' = reference_counts
     /\ DereferencesInert
        => status' = "segfault" /\ reference_counts' = reference_counts]_vars

\* C20 (amended): on an inert handle, destruction and move-assignment to it
\* are safe and leave every count unchanged; copy-assignment to it from a live
\* handle is safe, makes it a live handle of the source's slot and raises that
\* slot's count by one, no other; every other operation that touches the
\* count ends in the error state.
C20_InertSafeOperations ==
  [][/\ (last'.op = "destroy" /\ Inert(handles[last'.dst]))
        => status' = "running" /\ reference_counts' = reference_counts
     /\ (AssignsToInert /\ last'.op = "move_assign")
        => status' = "running" /\ reference_counts' = reference_counts
     /\ (AssignsToInert /\ last'.op = "copy_assign")
        => LET Y == handles[last'.src].reference_count IN
           /\ status' = "running"
           /\ Live(handles'[last'.dst])
           /\ handles'[last'.dst].reference_count = Y
           /\ reference_counts'[Y] = reference_counts[Y] + 1
           /\ OtherCountsUnchanged(Y)
     /\ DereferencesInert
        => status' = "segfault" /\ reference_counts' = reference_counts]_vars

\* C20 witness: release() was called a second time on a handle (its counter
\* pointer was null) and the process has died, while a copy still holds the
\* slot the first release() gave a share of back.
C20_Witness ==
  /\ last.op = "release"
  /\ status = "segfault"
  /\ Inert(handles[last.dst])
  /\ \E s \in Slots : reference_counts[s] = 1 /\ HoldersOf(s) # {}

====
